---- MODULE Spec2Model ----
(***************************************************************************)
(* The approval-gated multi-shipment dashboard (the Dashboard component    *)
(* with createAPSteps/createARSteps, runAPForShipment/runARForShipment,    *)
(* handleApproveAction and the start/pause/resume/reset handlers).         *)
(*                                                                         *)
(* Time is not measured.  `timers` holds the pending setTimeout calls in   *)
(* the order of their creation, each with its delay; a timer may fire once *)
(* no timer created before it with the same or a shorter delay is pending. *)
(* Every handler and every timer callback is one atomic action: React      *)
(* commits the batched state updates and runs the effects that copy the    *)
(* state into activitiesRef/shipmentsRef before the next callback runs, so *)
(* a callback reads the state as the previous callback left it.            *)
(***************************************************************************)
EXTENDS Integers, Sequences, FiniteSets, Bags, TLC

VARIABLES
  simulation,            \* SimulationState: isRunning, currentPhase, currentStep
  activities,            \* Activity[], newest first
  shipments,             \* Shipment[], the seed list with its status fields
  completedAPShipments,  \* Set<string>
  activeShipmentSteps,   \* Record<string, number>
  pendingDrafts,         \* Record<string, draftContent>
  timers,                \* the pending setTimeout calls, oldest first
  session,               \* what the session explores: its clicks, timers, log order
  userOps,               \* the Start Demo, Pause and Reset clicks so far
  dialog                 \* the shipment details dialog: what it shows

vars == <<simulation, activities, shipments, completedAPShipments,
          activeShipmentSteps, pendingDrafts, timers, session, userOps, dialog>>

(***************************************************************************)
(* Bounds of the model.                                                    *)
(***************************************************************************)
\* the dashboard is run with the first MaxShipments shipments of the seed list
MaxShipments == 2
\* most timers of shipments that may be pending beyond one for each shipment
MaxExtraTimers == 1
\* most Pause clicks, Reset clicks and Start Demo clicks of one session
MaxPauses == 1
MaxResets == 1
MaxStarts == 1
\* longest activity list of a run that keeps the arrival order (SpecLog)
MaxLog == 9
\* most activities of the list that the details dialog is shown with (SpecDialog)
MaxShown == 7

(***************************************************************************)
(* Seed data.                                                              *)
(***************************************************************************)
SeedList ==
  << [id |-> "SHP-001", detentionCharge |-> 300,
      apStatus |-> "received", arStatus |-> "preparing", pendingAction |-> "none"],
     [id |-> "SHP-002", detentionCharge |-> 0,
      apStatus |-> "received", arStatus |-> "preparing", pendingAction |-> "none"],
     [id |-> "SHP-003", detentionCharge |-> 0,
      apStatus |-> "received", arStatus |-> "preparing", pendingAction |-> "none"] >>

INITIAL_SHIPMENTS == SubSeq(SeedList, 1, MaxShipments)

ShipmentIds == { INITIAL_SHIPMENTS[i].id : i \in DOMAIN INITIAL_SHIPMENTS }

\* shipments.find(s => s.id === id), as a position of the seed list
IndexOf(id) == CHOOSE i \in DOMAIN INITIAL_SHIPMENTS : INITIAL_SHIPMENTS[i].id = id

Seed(id) == INITIAL_SHIPMENTS[IndexOf(id)]

NoDraft == [subject |-> "none", asks |-> {}]

NoStep == [delay |-> 0, type |-> "none", title |-> "none", status |-> "none",
           document |-> "none", requiresApproval |-> FALSE, draftContent |-> NoDraft]

\* a SimStep; document "none" and draftContent NoDraft stand for undefined
SimStep(delay, type, title, status, document, requiresApproval, draftContent) ==
  [delay |-> delay, type |-> type, title |-> title, status |-> status,
   document |-> document, requiresApproval |-> requiresApproval,
   draftContent |-> draftContent]

(***************************************************************************)
(* createAPSteps: the AP script of a shipment, computed from the shipment  *)
(* and from the activity list it is given.                                 *)
(***************************************************************************)
HasDocument(currentActivities, name) ==
  \E i \in DOMAIN currentActivities : currentActivities[i].document = name

HasTitle(currentActivities, title) ==
  \E i \in DOMAIN currentActivities : currentActivities[i].title = title

\* the request is needed only while a document is missing
documentMissing(currentActivities) ==
  \/ ~HasDocument(currentActivities, "Bill of Lading")
  \/ ~HasDocument(currentActivities, "Proof of Delivery")
  \/ ~HasDocument(currentActivities, "Carrier Invoice")

needsDocRequest(currentActivities) ==
  \/ ~HasDocument(currentActivities, "Bill of Lading")
  \/ ~HasDocument(currentActivities, "Proof of Delivery")
  \/ ~HasDocument(currentActivities, "Carrier Invoice")
  \/ HasTitle(currentActivities, "Drafting Document Request")

DocRequestSteps(currentActivities) ==
  << SimStep(2000, "email_draft", "Drafting Document Request", "received", "none", TRUE,
       [subject |-> "Document Request",
        asks |-> { d \in {"Proof of Delivery", "Bill of Lading"} :
                     ~HasDocument(currentActivities, d) }
                 \cup (IF HasDocument(currentActivities, "Carrier Invoice")
                       THEN {} ELSE {"Invoice"})]),
     SimStep(1000, "email_sent", "AI Requests Documents", "received", "none", FALSE, NoDraft),
     SimStep(5000, "email_received", "Documents Received", "in_review",
       "Missing Documents Email", FALSE, NoDraft) >>

DetentionSteps(currentActivities) ==
  << SimStep(2000, "issue_found", "Detention Issue", "in_dispute", "none", FALSE, NoDraft),
     SimStep(2000, "email_draft", "Drafting Detention Request", "in_dispute", "none", TRUE,
       [subject |-> "Detention Documentation Request",
        asks |-> (IF HasDocument(currentActivities, "Bill of Lading")
                  THEN {} ELSE {"Signed Bill of Lading"}) \cup {"GPS/ELD report"}]),
     SimStep(1000, "email_sent", "Requesting Detention Proof", "in_dispute",
       "Detention Request Email", FALSE, NoDraft),
     SimStep(8000, "email_received", "Detention Docs Received", "in_review", "none",
       FALSE, NoDraft),
     SimStep(500, "document_scanned", "Gate Log Received", "in_review", "Gate Log.pdf",
       FALSE, NoDraft),
     SimStep(500, "document_scanned", "ELD Report Received", "in_review", "ELD Report.pdf",
       FALSE, NoDraft),
     SimStep(500, "issue_resolved", "Detention Verified", "audit_pass", "none",
       FALSE, NoDraft),
     SimStep(2000, "document_scanned", "Gate Log Verified", "in_review", "Gate Log",
       FALSE, NoDraft),
     SimStep(2000, "document_scanned", "ELD Report Verified", "in_review", "ELD Report",
       FALSE, NoDraft),
     SimStep(2000, "audit_complete", "AP Audit Complete", "audit_pass", "none",
       FALSE, NoDraft) >>

NoDetentionSteps ==
  << SimStep(2000, "audit_complete", "AP Audit Complete", "audit_pass", "none",
       FALSE, NoDraft) >>

\* a script without the dispute branch for every shipment
noDetentionCharge(shipment) == FALSE

\* a script with the dispute branch for every shipment
anyDetentionCharge(shipment) == TRUE

\* shipment.detentionCharge ? [...] : [...]
hasDetentionCharge(shipment) == Seed(shipment).detentionCharge # 0

createAPSteps(shipment, currentActivities) ==
  << SimStep(1000, "email_received", "Delivery Confirmation", "received",
       "Delivery Email", FALSE, NoDraft) >>
  \o (IF needsDocRequest(currentActivities)
      THEN DocRequestSteps(currentActivities) ELSE << >>)
  \o << SimStep(2000, "document_scanned", "Scanning BOL", "in_review",
          "Bill of Lading", FALSE, NoDraft),
        SimStep(2000, "document_scanned", "POD Verified", "in_review",
          "Proof of Delivery", FALSE, NoDraft),
        SimStep(2000, "document_scanned", "Rate Con Verified", "in_review",
          "Rate Confirmation", FALSE, NoDraft),
        SimStep(2000, "document_scanned", "Invoice Analysis", "in_review",
          "Carrier Invoice", FALSE, NoDraft) >>
  \o (IF hasDetentionCharge(shipment)
      THEN DetentionSteps(currentActivities) ELSE NoDetentionSteps)

(***************************************************************************)
(* createARSteps: the AR script, the same for every activity list.         *)
(***************************************************************************)
createARSteps(shipment, currentActivities) ==
  << SimStep(1000, "email_received", "AR Job Opened", "preparing", "none", FALSE, NoDraft),
     SimStep(2000, "document_scanned", "Reviewing Agreement", "preparing",
       "Shipper Agreement", FALSE, NoDraft),
     SimStep(2000, "document_scanned", "Lane Contract Verified", "preparing",
       "Lane Contract", FALSE, NoDraft),
     SimStep(2000, "invoice_created", "Invoice Generated", "preparing",
       "Broker Invoice", FALSE, NoDraft),
     SimStep(2000, "document_scanned", "Evidence Packet Ready", "for_review", "none",
       FALSE, NoDraft),
     SimStep(2000, "email_draft", "Drafting Shipper Invoice", "for_review", "none", TRUE,
       [subject |-> "Invoice for Shipment",
        asks |-> IF Seed(shipment).detentionCharge # 0 THEN {"Detention"} ELSE {}]),
     SimStep(1000, "email_sent", "Invoice Sent", "submitted", "Invoice Email",
       FALSE, NoDraft),
     SimStep(5000, "payment_received", "AR Complete", "submitted", "none",
       FALSE, NoDraft) >>

(***************************************************************************)
(* The activity list.                                                      *)
(***************************************************************************)
\* an Activity; its id is `${category}-${shipment.id}-${Date.now()}-${stepIndex}`
\* without the clock reading
Activity(shipmentId, category, stepIndex, type, step, pendingAction) ==
  [id |-> <<category, shipmentId, stepIndex>>, shipmentId |-> shipmentId,
   type |-> type, category |-> category, title |-> step.title,
   document |-> IF pendingAction THEN "none" ELSE step.document,
   pendingAction |-> pendingAction]

\* the place of an activity in the canonical order of the list
Rank(a) ==
  (((IndexOf(a.shipmentId) * 2 + (IF a.category = "ar" THEN 1 ELSE 0)) * 64)
   + a.id[3]) * 2 + (IF a.pendingAction THEN 1 ELSE 0)

\* `list` without the entries that repeat their predecessor
RECURSIVE Distinct(_)
Distinct(list) ==
  IF Len(list) <= 1 THEN list
  ELSE IF list[1] = list[2] THEN Distinct(Tail(list))
  ELSE <<list[1]>> \o Distinct(Tail(list))

\* a list that grows at its tail
AppendLast(newActivity, prev) == prev \o <<newActivity>>

\* setActivities(prev => [newActivity, ...prev]).  With log order "canonical" the
\* list is held as the set of its entries (each once, sorted by Rank), which
\* forgets in what order and how often the chains logged them.
Prepend(newActivity, prev) ==
  IF session.logOrder = "arrival" THEN <<newActivity>> \o prev
  ELSE IF \E i \in DOMAIN prev : prev[i] = newActivity THEN prev
  ELSE LET n == Cardinality({ i \in DOMAIN prev : Rank(prev[i]) < Rank(newActivity) })
       IN SubSeq(prev, 1, n) \o <<newActivity>> \o SubSeq(prev, n + 1, Len(prev))

(***************************************************************************)
(* Timers.                                                                 *)
(***************************************************************************)
\* a pending setTimeout(callback, delay): `tracked` when its handle was pushed
\* to timeoutRefs
Timer(kind, shipmentId, stepIndex, step, delay, tracked) ==
  [kind |-> kind, shipmentId |-> shipmentId, stepIndex |-> stepIndex,
   step |-> step, delay |-> delay, tracked |-> tracked]

Pending(kind) == { i \in DOMAIN timers : timers[i].kind = kind }

\* the timer at position i may expire: every timer created before it with the
\* same or a shorter delay has fired or was cleared
Expired(i) == \A j \in 1..(i - 1) : timers[j].delay > timers[i].delay

\* `tm` without its i-th timer
Remove(tm, i) == SubSeq(tm, 1, i - 1) \o SubSeq(tm, i + 1, Len(tm))

IsUntracked(t) == ~t.tracked

\* timeoutRefs.current.forEach(clearTimeout); timeoutRefs.current = []
clearTimeouts(tm) == SelectSeq(tm, IsUntracked)

IsShipmentTimer(t) == t.shipmentId \in ShipmentIds

\* the number of pending timers that belong to a shipment
ShipmentTimers(tm) == Len(SelectSeq(tm, IsShipmentTimer))

TimersWithinBound(tm) ==
  ShipmentTimers(tm) <= Len(INITIAL_SHIPMENTS) + session.extraTimers

\* the part of the state that runAPForShipment and runARForShipment write
RunState(tm, active) == [timers |-> tm, active |-> active]

SetActive(active, shipmentId, stepIndex) ==
  [x \in DOMAIN active \cup {shipmentId} |->
     IF x = shipmentId THEN stepIndex ELSE active[x]]

\* runARForShipment(shipment, stepIndex): returns at once past the end of the
\* script, else records the step index and schedules the step
runARForShipment(st, shipment, stepIndex) ==
  LET arSteps == createARSteps(shipment, activities) IN
  IF stepIndex >= Len(arSteps) THEN st
  ELSE RunState(
         Append(st.timers, Timer("ar", shipment, stepIndex, arSteps[stepIndex + 1],
                                 arSteps[stepIndex + 1].delay, TRUE)),
         SetActive(st.active, shipment, stepIndex))

\* runAPForShipment(shipment, stepIndex): the script is computed from
\* activitiesRef.current, the list as of the last commit
runAPForShipment(st, shipment, stepIndex) ==
  LET apSteps == createAPSteps(shipment, activities) IN
  IF stepIndex >= Len(apSteps) THEN st
  ELSE RunState(
         Append(st.timers, Timer("ap", shipment, stepIndex, apSteps[stepIndex + 1],
                                 apSteps[stepIndex + 1].delay, TRUE)),
         SetActive(st.active, shipment, stepIndex))

\* a hand-off timer whose handle is pushed to timeoutRefs
TrackedHandoffTimer(shipmentId) == Timer("handoff", shipmentId, 0, NoStep, 2000, TRUE)

\* setTimeout(() => runARForShipment(shipment, 0), 2000): its handle is dropped
HandoffTimer(shipmentId) == Timer("handoff", shipmentId, 0, NoStep, 2000, FALSE)

\* a map that writes the field of every shipment
SetFieldOfAll(list, id, field, value) ==
  [i \in DOMAIN list |-> [list[i] EXCEPT ![field] = value]]

\* prev.map(s => s.id === id ? { ...s, <field>: value } : s)
SetField(list, id, field, value) ==
  [i \in DOMAIN list |->
     IF list[i].id = id THEN [list[i] EXCEPT ![field] = value] ELSE list[i]]

\* a timer of 0 ms (the first shipment's start) expires before the next click
Settled == \A i \in DOMAIN timers : timers[i].delay > 0

\* a session that keeps the arrival order stops logging at MaxLog entries
LogRoom == session.logOrder = "arrival" => Len(activities) < MaxLog

(***************************************************************************)
(* Timer callbacks.                                                        *)
(***************************************************************************)
\* the callback of the timer that runAPForShipment schedules
APStepTimeout(i) ==
  /\ i \in Pending("ap")
  /\ Expired(i)
  /\ LogRoom
  /\ LET rest == Remove(timers, i)
         id == timers[i].shipmentId
         stepIndex == timers[i].stepIndex
         step == timers[i].step
     IN IF step.requiresApproval
        THEN \* record the draft, mark the shipment, schedule nothing
             /\ pendingDrafts' =
                  IF step.draftContent # NoDraft
                  THEN [x \in DOMAIN pendingDrafts \cup {id} |->
                          IF x = id THEN step.draftContent ELSE pendingDrafts[x]]
                  ELSE pendingDrafts
             /\ activities' =
                  Prepend(Activity(id, "ap", stepIndex, step.type, step, TRUE), activities)
             /\ shipments' =
                  SetField(SetField(shipments, id, "apStatus", "input_required"),
                           id, "pendingAction", "approve_email")
             /\ timers' = rest
             /\ UNCHANGED <<completedAPShipments, activeShipmentSteps>>
        ELSE /\ activities' =
                  Prepend(Activity(id, "ap", stepIndex, step.type, step, FALSE), activities)
             /\ shipments' = SetField(shipments, id, "apStatus", step.status)
             /\ IF step.type = "audit_complete"
                THEN \* the 2000 ms timer that starts AR is not pushed to timeoutRefs
                     /\ completedAPShipments' = completedAPShipments \cup {id}
                     /\ timers' = Append(rest, HandoffTimer(id))
                     /\ UNCHANGED activeShipmentSteps
                ELSE \E st \in {runAPForShipment(RunState(rest, activeShipmentSteps),
                                                 id, stepIndex + 1)} :
                        /\ timers' = st.timers
                        /\ activeShipmentSteps' = st.active
                        /\ UNCHANGED completedAPShipments
             /\ UNCHANGED pendingDrafts
  /\ UNCHANGED <<simulation, session, dialog, userOps>>

\* the callback of the timer that runARForShipment schedules
ARStepTimeout(i) ==
  /\ i \in Pending("ar")
  /\ Expired(i)
  /\ LogRoom
  /\ LET rest == Remove(timers, i)
         id == timers[i].shipmentId
         stepIndex == timers[i].stepIndex
         step == timers[i].step
     IN IF step.requiresApproval /\ step.draftContent # NoDraft
        THEN /\ pendingDrafts' =
                  [x \in DOMAIN pendingDrafts \cup {id} |->
                     IF x = id THEN step.draftContent ELSE pendingDrafts[x]]
             /\ activities' =
                  Prepend(Activity(id, "ar", stepIndex, "email_draft", step, TRUE),
                          activities)
             /\ shipments' =
                  SetField(SetField(shipments, id, "arStatus", "input_required"),
                           id, "pendingAction", "approve_email")
             /\ timers' = rest
             /\ UNCHANGED activeShipmentSteps
        ELSE \E st \in {runARForShipment(RunState(rest, activeShipmentSteps),
                                         id, stepIndex + 1)} :
                /\ activities' =
                     Prepend(Activity(id, "ar", stepIndex, step.type, step, FALSE),
                             activities)
                /\ shipments' = SetField(shipments, id, "arStatus", step.status)
                /\ timers' = st.timers
                /\ activeShipmentSteps' = st.active
                /\ UNCHANGED pendingDrafts
  /\ UNCHANGED <<simulation, completedAPShipments, session, dialog, userOps>>

\* setTimeout(() => runARForShipment(shipment, 0), 2000) after audit_complete
HandoffTimeout(i) ==
  /\ i \in Pending("handoff")
  /\ Expired(i)
  /\ \E st \in {runARForShipment(RunState(Remove(timers, i), activeShipmentSteps),
                                 timers[i].shipmentId, 0)} :
        /\ timers' = st.timers
        /\ activeShipmentSteps' = st.active
  /\ UNCHANGED <<simulation, activities, shipments, completedAPShipments,
                 pendingDrafts, session, dialog, userOps>>

\* setTimeout(() => runAPForShipment(shipment, 0), index * 8000) of startSimulation
StaggerTimeout(i) ==
  /\ i \in Pending("stagger")
  /\ Expired(i)
  /\ \E st \in {runAPForShipment(RunState(Remove(timers, i), activeShipmentSteps),
                                 timers[i].shipmentId, 0)} :
        /\ timers' = st.timers
        /\ activeShipmentSteps' = st.active
  /\ UNCHANGED <<simulation, activities, shipments, completedAPShipments,
                 pendingDrafts, session, dialog, userOps>>

\* checkARTimeout of startSimulation
CheckARTimeout(i) ==
  /\ i \in Pending("checkAR")
  /\ Expired(i)
  /\ simulation' = [simulation EXCEPT !.currentPhase = "ar"]
  /\ timers' = Remove(timers, i)
  /\ UNCHANGED <<activities, shipments, completedAPShipments, activeShipmentSteps,
                 pendingDrafts, session, dialog, userOps>>

\* completeTimeout of startSimulation
CompleteTimeout(i) ==
  /\ i \in Pending("complete")
  /\ Expired(i)
  /\ simulation' = [simulation EXCEPT !.isRunning = FALSE, !.currentPhase = "complete"]
  /\ timers' = Remove(timers, i)
  /\ UNCHANGED <<activities, shipments, completedAPShipments, activeShipmentSteps,
                 pendingDrafts, session, dialog, userOps>>

(***************************************************************************)
(* Handlers.                                                               *)
(***************************************************************************)
\* the timers of startSimulation: one for each shipment at index * 8000 ms, the
\* phase change at 45000 + length * 8000 ms and the completion at 120000 ms
\* only the first shipment is started
FirstShipmentTimers ==
  << Timer("stagger", INITIAL_SHIPMENTS[1].id, 0, NoStep, 0, TRUE),
     Timer("checkAR", "", 0, NoStep, 45000 + Len(INITIAL_SHIPMENTS) * 8000, TRUE),
     Timer("complete", "", 0, NoStep, 120000, TRUE) >>

StartTimers ==
  [i \in DOMAIN INITIAL_SHIPMENTS |->
     Timer("stagger", INITIAL_SHIPMENTS[i].id, 0, NoStep, (i - 1) * 8000, TRUE)]
  \o << Timer("checkAR", "", 0, NoStep, 45000 + Len(INITIAL_SHIPMENTS) * 8000, TRUE),
        Timer("complete", "", 0, NoStep, 120000, TRUE) >>

\* a start that keeps the lists of the run before
startOverPreviousRun(tm) ==
  /\ timers' = clearTimeouts(tm) \o StartTimers
  /\ TimersWithinBound(timers')
  /\ completedAPShipments' = {}
  /\ simulation' = [isRunning |-> TRUE, currentPhase |-> "ap", currentStep |-> 0]
  /\ UNCHANGED <<activities, shipments, activeShipmentSteps, pendingDrafts, session, dialog>>

\* startSimulation(), after the timer in `tm` that called it was removed;
\* activeShipmentSteps and pendingDrafts are not reset
startSimulation(tm) ==
  /\ timers' = clearTimeouts(tm) \o StartTimers
  /\ TimersWithinBound(timers')
  /\ activities' = << >>
  /\ shipments' = INITIAL_SHIPMENTS
  /\ completedAPShipments' = {}
  /\ simulation' = [isRunning |-> TRUE, currentPhase |-> "ap", currentStep |-> 0]
  /\ UNCHANGED <<activeShipmentSteps, pendingDrafts, session, dialog>>

\* the Start Demo button and the space key (toggleSimulation), offered when the
\* simulation is idle or complete
StartDemo ==
  /\ ~simulation.isRunning
  /\ simulation.currentPhase \in {"idle", "complete"}
  /\ Settled
  /\ userOps.starts < session.starts
  /\ userOps' = [userOps EXCEPT !.starts = @ + 1]
  /\ startSimulation(timers)

\* an auto-start that stays armed after it has fired
RepeatingAutoStart(i) ==
  /\ i \in Pending("autoStart")
  /\ Expired(i)
  /\ startSimulation(timers)
  /\ UNCHANGED userOps

\* the auto-start timer of the mount effect (800 ms); it is not in timeoutRefs
AutoStartTimeout(i) ==
  /\ i \in Pending("autoStart")
  /\ Expired(i)
  /\ startSimulation(Remove(timers, i))
  /\ UNCHANGED userOps

\* pauseSimulation(), offered while the simulation is running
pauseSimulation ==
  /\ simulation.isRunning
  /\ Settled
  /\ userOps.pauses < session.pauses
  /\ userOps' = [userOps EXCEPT !.pauses = @ + 1]
  /\ timers' = clearTimeouts(timers)
  /\ simulation' = [simulation EXCEPT !.isRunning = FALSE]
  /\ UNCHANGED <<activities, shipments, completedAPShipments, activeShipmentSteps,
                 pendingDrafts, session, dialog>>

\* resetSimulation(), offered once the phase is not idle or the list is not empty
resetSimulation ==
  /\ simulation.currentPhase # "idle" \/ Len(activities) > 0
  /\ Settled
  /\ userOps.resets < session.resets
  /\ userOps' = [userOps EXCEPT !.resets = @ + 1]
  /\ timers' = clearTimeouts(timers)
  /\ activities' = << >>
  /\ shipments' = INITIAL_SHIPMENTS
  /\ completedAPShipments' = {}
  /\ activeShipmentSteps' = << >>
  /\ pendingDrafts' = << >>
  /\ simulation' = [isRunning |-> FALSE, currentPhase |-> "idle", currentStep |-> 0]
  /\ UNCHANGED <<session, dialog>>

\* the body of shipments.forEach in resumeSimulation, for the shipments from
\* position i on
RECURSIVE ResumeEach(_, _)
ResumeEach(st, i) ==
  IF i > Len(shipments) THEN st
  ELSE LET shipment == shipments[i]
           next ==
             IF shipment.pendingAction = "approve_email" THEN st
             ELSE IF shipment.id \in DOMAIN activeShipmentSteps
             THEN IF shipment.id \in completedAPShipments
                  THEN runARForShipment(st, shipment.id, activeShipmentSteps[shipment.id])
                  ELSE runAPForShipment(st, shipment.id, activeShipmentSteps[shipment.id])
             ELSE IF simulation.currentPhase # "complete"
             THEN runAPForShipment(st, shipment.id, 0)
             ELSE st
       IN ResumeEach(next, i + 1)

\* resumeSimulation(), offered when paused in phase ap or ar
resumeSimulation ==
  /\ ~simulation.isRunning
  /\ simulation.currentPhase \notin {"idle", "complete"}
  /\ Settled
  /\ simulation' = [simulation EXCEPT !.isRunning = TRUE]
  /\ \E st \in {ResumeEach(RunState(timers, activeShipmentSteps), 1)} :
        /\ timers' = st.timers
        /\ activeShipmentSteps' = st.active
  /\ TimersWithinBound(timers')
  /\ UNCHANGED <<activities, shipments, completedAPShipments, pendingDrafts, session, dialog,
                 userOps>>

\* the dashboard offers the approval of a shipment's draft from the details dialog
\* while the shipment has a pending action, and from the AP activity stream while
\* one of its AP activities carries pendingAction
ApprovalOffered(shipmentId) ==
  \/ shipments[IndexOf(shipmentId)].pendingAction # "none"
  \/ \E i \in DOMAIN activities :
       /\ activities[i].shipmentId = shipmentId
       /\ activities[i].category = "ap"
       /\ activities[i].pendingAction

\* handleApproveAction(shipmentId)
handleApproveAction(shipmentId) ==
  /\ ApprovalOffered(shipmentId)
  /\ Settled
  /\ shipmentId \in DOMAIN activeShipmentSteps
  /\ pendingDrafts' = [x \in DOMAIN pendingDrafts \ {shipmentId} |-> pendingDrafts[x]]
  /\ shipments' = SetField(shipments, shipmentId, "pendingAction", "none")
  /\ activities' =
       LET mapped ==
             [i \in DOMAIN activities |->
                IF /\ activities[i].shipmentId = shipmentId
                   /\ activities[i].type = "email_draft"
                   /\ activities[i].pendingAction
                THEN [activities[i] EXCEPT !.pendingAction = FALSE]
                ELSE activities[i]]
       IN IF session.logOrder = "arrival" THEN mapped ELSE Distinct(mapped)
  /\ \E st \in {IF shipmentId \in completedAPShipments
                THEN runARForShipment(RunState(timers, activeShipmentSteps),
                                      shipmentId, activeShipmentSteps[shipmentId] + 1)
                ELSE runAPForShipment(RunState(timers, activeShipmentSteps),
                                      shipmentId, activeShipmentSteps[shipmentId] + 1)} :
        /\ timers' = st.timers
        /\ activeShipmentSteps' = st.active
  /\ TimersWithinBound(timers')
  /\ UNCHANGED <<simulation, completedAPShipments, session, dialog, userOps>>

(***************************************************************************)
(* The shipment details dialog: the checklist it renders.                  *)
(***************************************************************************)
\* the dialog with selectedShipment null
Closed == [open |-> FALSE, context |-> "ap", checklistItems |-> << >>]

apStatusSchema ==
  {"received", "in_review", "audit_pass", "in_dispute", "paid", "input_required"}

arStatusSchema ==
  {"preparing", "for_review", "submitted", "in_dispute", "collected", "input_required"}

\* the words that the dialog looks for in a title, for every title of the scripts
Words(title) ==
  CASE title = "Drafting Document Request" -> {"Drafting"}
    [] title = "POD Verified" -> {"Verified"}
    [] title = "Rate Con Verified" -> {"Rate Con Verified", "Verified"}
    [] title = "Detention Issue" -> {"Detention"}
    [] title = "Drafting Detention Request" -> {"Drafting", "Detention"}
    [] title = "Requesting Detention Proof" -> {"Detention"}
    [] title = "Detention Docs Received" -> {"Detention"}
    [] title = "Gate Log Received" -> {"Gate Log"}
    [] title = "ELD Report Received" -> {"ELD"}
    [] title = "Detention Verified" -> {"Detention", "Verified", "Gate Log", "ELD"}
    [] title = "Gate Log Verified" -> {"Gate Log", "Verified"}
    [] title = "ELD Report Verified" -> {"ELD", "Verified"}
    [] title = "Reviewing Agreement" -> {"Agreement"}
    [] title = "Lane Contract Verified" -> {"Contract", "Verified"}
    [] title = "Evidence Packet Ready" -> {"Evidence", "Packet"}
    [] title = "Drafting Shipper Invoice" -> {"Drafting"}
    [] OTHER -> {}

\* a.title.includes(word)
Includes(title, word) == word \in Words(title)

ChecklistItem(id, status) == [id |-> id, status |-> status]

\* hasPendingAction = Boolean(shipment.pendingAction)
hasPendingAction(shipment) == shipment.pendingAction # "none"

\* canStartAR = isAPComplete
canStartAR(shipment) == shipment.apStatus \in {"audit_pass", "paid"}

isARComplete(shipment) ==
  canStartAR(shipment) /\ shipment.arStatus \in {"submitted", "collected"}

\* (carrierInvoice?.detentionCharge ?? 0) > 0: the shipment record of the model
\* holds the detention charge of its carrier invoice in detentionCharge
hasDetention(shipment) == shipment.detentionCharge > 0

\* the first position of a non-completed item, 0 when there is none
FirstNonCompleted(items) ==
  IF \A k \in DOMAIN items : items[k].status = "completed" THEN 0
  ELSE CHOOSE k \in DOMAIN items :
         /\ items[k].status # "completed"
         /\ \A j \in 1..(k - 1) : items[j].status = "completed"

applyPendingActionGate(items, pending) ==
  IF ~pending THEN items
  ELSE LET first == FirstNonCompleted(items) IN
       IF first = 0
       THEN [items EXCEPT ![Len(items)].status = "action_required"]
       ELSE [k \in DOMAIN items |->
               IF k < first THEN items[k]
               ELSE IF k = first
               THEN IF items[k].status # "issue"
                    THEN [items[k] EXCEPT !.status = "action_required"]
                    ELSE items[k]
               ELSE [items[k] EXCEPT !.status = "pending"]]

\* done as soon as the status says so
doneByStatus(shipment, accessorialsChecked) ==
  shipment.apStatus \in {"audit_pass", "paid"}

\* isDone of the AP checklist
isDone(shipment, accessorialsChecked) ==
  shipment.apStatus \in {"audit_pass", "paid"} /\ accessorialsChecked

\* getStatus of the AP checklist
APItemStatus(shipment, isCompleted, previousCompleted) ==
  IF isCompleted THEN "completed"
  ELSE IF previousCompleted
  THEN IF shipment.apStatus = "in_dispute" THEN "issue"
       ELSE IF shipment.apStatus = "input_required" THEN "action_required"
       ELSE "in-progress"
  ELSE "pending"

\* getStatus of the AR checklist
ARItemStatus(shipment, isCompleted, previousCompleted) ==
  IF ~canStartAR(shipment) THEN "pending"
  ELSE IF isCompleted THEN "completed"
  ELSE IF previousCompleted
  THEN IF shipment.arStatus = "in_dispute" THEN "issue"
       ELSE IF shipment.arStatus = "input_required" THEN "action_required"
       ELSE "in-progress"
  ELSE "pending"

APChecklist(shipment, currentActivities) ==
  LET RatesSeen(a) ==
        \/ Includes(a.title, "Rate Con Verified")
        \/ shipment.apStatus = "audit_pass"
        \/ shipment.apStatus = "paid"
      DetentionSeen(a) ==
        /\ \/ Includes(a.title, "ELD")
           \/ Includes(a.title, "Gate Log")
           \/ Includes(a.title, "Detention")
        /\ \/ Includes(a.title, "Verified")
           \/ Includes(a.title, "Resolved")
      HasDoc(a) == a.document # "none"
      ratesValidated == (\E k \in DOMAIN currentActivities : RatesSeen(currentActivities[k]))
      detentionVerified ==
        shipment.pendingAction = "none" /\ (\E k \in DOMAIN currentActivities : DetentionSeen(currentActivities[k]))
      accessorialsChecked == ~hasDetention(shipment) \/ detentionVerified
      evidencesChecked == (\E k \in DOMAIN currentActivities : HasDoc(currentActivities[k]))
      done == isDone(shipment, accessorialsChecked)
      check1 == TRUE
      check2 == check1 /\ (ratesValidated \/ done)
      check3 == check2 /\ accessorialsChecked
      check4 == check3 /\ (evidencesChecked \/ done)
      check5 == done
  IN << ChecklistItem("ap-1", APItemStatus(shipment, check1, TRUE)),
        ChecklistItem("ap-2", APItemStatus(shipment, check2, check1)),
        ChecklistItem("ap-3", APItemStatus(shipment, check3, check2)),
        ChecklistItem("ap-4", APItemStatus(shipment, check4, check3)),
        ChecklistItem("ap-5", APItemStatus(shipment, check5, check4)) >>

ARChecklist(shipment, currentActivities) ==
  LET AgreementSeen(a) ==
        a.category = "ar" /\ (Includes(a.title, "Agreement") \/ Includes(a.title, "Contract"))
      InvoiceSeen(a) == a.category = "ar" /\ a.type = "invoice_created"
      EvidenceSeen(a) == a.category = "ar" /\ Includes(a.title, "Evidence")
      PacketSeen(a) ==
        a.category = "ar" /\ (Includes(a.title, "Packet") \/ Includes(a.title, "Drafting"))
      sent == isARComplete(shipment)
      hasLoadData == canStartAR(shipment)
      loadedRateContract ==
        canStartAR(shipment) /\ (sent \/ (\E k \in DOMAIN currentActivities : AgreementSeen(currentActivities[k])))
      calculatedCharge ==
        canStartAR(shipment) /\ (sent \/ (\E k \in DOMAIN currentActivities : InvoiceSeen(currentActivities[k])))
      foundAccessorials ==
        canStartAR(shipment) /\ (sent \/ (\E k \in DOMAIN currentActivities : EvidenceSeen(currentActivities[k])))
      builtPacket ==
        canStartAR(shipment) /\ (sent \/ (\E k \in DOMAIN currentActivities : PacketSeen(currentActivities[k])))
      check1 == hasLoadData
      check2 == check1 /\ loadedRateContract
      check3 == check2 /\ calculatedCharge
      check4 == check3 /\ (foundAccessorials \/ TRUE)
      check5 == check4 /\ builtPacket
      check6 == sent
  IN << ChecklistItem("ar-1", ARItemStatus(shipment, check1, TRUE)),
        ChecklistItem("ar-2", ARItemStatus(shipment, check2, check1)),
        ChecklistItem("ar-3", ARItemStatus(shipment, check3, check2)),
        ChecklistItem("ar-4", ARItemStatus(shipment, check4, check3)),
        ChecklistItem("ar-5", ARItemStatus(shipment, check5, check4)),
        ChecklistItem("ar-6", ARItemStatus(shipment, check6, check5)) >>

getChecklistItems(shipment, currentActivities, context) ==
  applyPendingActionGate(
    IF context = "ap" THEN APChecklist(shipment, currentActivities)
    ELSE ARChecklist(shipment, currentActivities),
    hasPendingAction(shipment))

\* the dialog is rendered for the shipment of the list, in the context of a tab
ShowDetails(context) ==
  /\ ~dialog.open
  /\ dialog' = [open |-> TRUE, context |-> context,
                checklistItems |-> getChecklistItems(shipments[1], activities, context)]
  /\ UNCHANGED <<simulation, activities, shipments, completedAPShipments,
                 activeShipmentSteps, pendingDrafts, timers, session, userOps>>

\* onOpenChange(false): setSelectedShipment(null)
CloseDetails ==
  /\ dialog.open
  /\ dialog' = Closed
  /\ UNCHANGED <<simulation, activities, shipments, completedAPShipments,
                 activeShipmentSteps, pendingDrafts, timers, session, userOps>>

\* the activities that the dialog may be shown with: steps of the two scripts
\* that the checklist looks at, and steps that it does not look at
Shown ==
  LET ap == createAPSteps("SHP-001", << >>)
      ar == createARSteps("SHP-001", << >>)
      all == << Activity("SHP-001", "ap", 6, ap[7].type, ap[7], FALSE),
                Activity("SHP-001", "ap", 15, ap[16].type, ap[16], FALSE),
                Activity("SHP-001", "ar", 1, ar[2].type, ar[2], FALSE),
                Activity("SHP-001", "ar", 3, ar[4].type, ar[4], FALSE),
                Activity("SHP-001", "ar", 5, ar[6].type, ar[6], TRUE),
                Activity("SHP-001", "ap", 1, ap[2].type, ap[2], TRUE),
                Activity("SHP-001", "ap", 0, ap[1].type, ap[1], FALSE),
                Activity("SHP-001", "ar", 4, ar[5].type, ar[5], FALSE) >>
  IN SubSeq(all, 1, IF MaxShown < Len(all) THEN MaxShown ELSE Len(all))

\* the activities of Shown at the positions of `chosen`, in the order of Shown
RECURSIVE Chosen(_, _)
Chosen(chosen, k) ==
  IF k > Len(Shown) THEN << >>
  ELSE (IF k \in chosen THEN <<Shown[k]>> ELSE << >>) \o Chosen(chosen, k + 1)

(***************************************************************************)
(* Specifications.                                                         *)
(***************************************************************************)
\* the state after the first render: the auto-start timer is pending
Mounted ==
  /\ simulation = [isRunning |-> FALSE, currentPhase |-> "idle", currentStep |-> 0]
  /\ activities = << >>
  /\ shipments = INITIAL_SHIPMENTS
  /\ completedAPShipments = {}
  /\ activeShipmentSteps = << >>
  /\ pendingDrafts = << >>
  /\ timers = << Timer("autoStart", "", 0, NoStep, 800, FALSE) >>
  /\ userOps = [pauses |-> 0, resets |-> 0, starts |-> 0]
  /\ dialog = Closed

\* a session with one pause, in which a shipment may have two timers pending
Duplicates ==
  [pauses |-> MaxPauses, resets |-> 0, starts |-> 0,
   extraTimers |-> MaxExtraTimers, logOrder |-> "canonical"]

\* a session with a pause, one timer for each shipment
Pauses ==
  [pauses |-> MaxPauses, resets |-> 0, starts |-> 0,
   extraTimers |-> 0, logOrder |-> "canonical"]

\* a session with a pause and a restart, one timer for each shipment
Replays ==
  [pauses |-> MaxPauses, resets |-> 0, starts |-> MaxStarts,
   extraTimers |-> 0, logOrder |-> "canonical"]

\* a session with a reset and a restart, one timer for each shipment
Restarts ==
  [pauses |-> 0, resets |-> MaxResets, starts |-> MaxStarts,
   extraTimers |-> 0, logOrder |-> "canonical"]

\* a session with every click, one timer for each shipment, that keeps the
\* arrival order of the activity list
Logged ==
  [pauses |-> MaxPauses, resets |-> MaxResets, starts |-> MaxStarts,
   extraTimers |-> 0, logOrder |-> "arrival"]

\* a session without Start Demo, Pause and Reset clicks
Unattended ==
  [pauses |-> 0, resets |-> 0, starts |-> 0,
   extraTimers |-> 0, logOrder |-> "canonical"]

Init == Mounted /\ session \in {Duplicates, Replays, Restarts}

InitLog == Mounted /\ session = Logged

InitRun == Mounted /\ session = Unattended

InitFair == Mounted /\ session \in {Pauses, Restarts}

Next ==
  \/ StartDemo
  \/ pauseSimulation
  \/ resumeSimulation
  \/ resetSimulation
  \/ \E id \in ShipmentIds : handleApproveAction(id)
  \/ \E i \in DOMAIN timers : AutoStartTimeout(i)
  \/ \E i \in DOMAIN timers : StaggerTimeout(i)
  \/ \E i \in DOMAIN timers : APStepTimeout(i)
  \/ \E i \in DOMAIN timers : ARStepTimeout(i)
  \/ \E i \in DOMAIN timers : HandoffTimeout(i)
  \/ \E i \in DOMAIN timers : CheckARTimeout(i)
  \/ \E i \in DOMAIN timers : CompleteTimeout(i)

\* what happens without Start Demo, Pause and Reset clicks
NextRun ==
  \/ \E id \in ShipmentIds : handleApproveAction(id)
  \/ \E i \in DOMAIN timers : AutoStartTimeout(i)
  \/ \E i \in DOMAIN timers : StaggerTimeout(i)
  \/ \E i \in DOMAIN timers : APStepTimeout(i)
  \/ \E i \in DOMAIN timers : ARStepTimeout(i)
  \/ \E i \in DOMAIN timers : HandoffTimeout(i)
  \/ \E i \in DOMAIN timers : CheckARTimeout(i)
  \/ \E i \in DOMAIN timers : CompleteTimeout(i)

\* the callback of the timer at position i
Timeout(i) ==
  \/ AutoStartTimeout(i)
  \/ StaggerTimeout(i)
  \/ APStepTimeout(i)
  \/ ARStepTimeout(i)
  \/ HandoffTimeout(i)
  \/ CheckARTimeout(i)
  \/ CompleteTimeout(i)

\* a pending timer expires: the event loop runs the callbacks that are due
TimersFire == WF_vars(\E i \in DOMAIN timers : Timeout(i))

\* the user approves every draft that is offered
DraftsApproved == \A id \in ShipmentIds : WF_vars(handleApproveAction(id))

Spec == Init /\ [][Next]_vars

SpecLog == InitLog /\ [][Next]_vars

\* sessions with a pause or with a reset and a restart, in which the timers fire
SpecFair == InitFair /\ [][Next]_vars /\ TimersFire

\* a run in which the timers fire and the user may leave a draft unapproved
SpecRun == InitRun /\ [][NextRun]_vars /\ TimersFire

\* a run in which the timers fire and the user approves every draft
SpecApproved == InitRun /\ [][NextRun]_vars /\ TimersFire /\ DraftsApproved

\* a paused simulation is resumed
Resumes == WF_vars(resumeSimulation)

\* the sessions of SpecFair, in which moreover the user approves every draft and
\* follows every pause with a resume
SpecLive == InitFair /\ [][Next]_vars /\ TimersFire /\ DraftsApproved /\ Resumes

\* the dialog is mounted for any shipment record and any list of activities
InitDialog ==
  /\ simulation = [isRunning |-> FALSE, currentPhase |-> "idle", currentStep |-> 0]
  /\ \E chosen \in SUBSET DOMAIN Shown : activities = Chosen(chosen, 1)
  /\ \E seed \in {SeedList[1], SeedList[2]}, ap \in apStatusSchema, ar \in arStatusSchema,
        pending \in {"none", "approve_email"} :
       shipments = << [seed EXCEPT !.apStatus = ap, !.arStatus = ar,
                                   !.pendingAction = pending] >>
  /\ completedAPShipments = {}
  /\ activeShipmentSteps = << >>
  /\ pendingDrafts = << >>
  /\ timers = << >>
  /\ userOps = [pauses |-> 0, resets |-> 0, starts |-> 0]
  /\ session = Unattended
  /\ dialog = Closed

NextDialog ==
  \/ \E context \in {"ap", "ar"} : ShowDetails(context)
  \/ CloseDetails

SpecDialog == InitDialog /\ [][NextDialog]_vars

(***************************************************************************)
(* The properties of the dashboard.                                        *)
(***************************************************************************)
\* shipments.find(s => s.id === id)
Ship(id) == shipments[IndexOf(id)]

\* the shipment waits for the approval of a draft
Halted(id) == Ship(id).pendingAction = "approve_email"

\* the steps of a shipment that are scheduled in `tm`, as <<script, index>>
StepTimers(tm, id) ==
  { <<tm[i].kind, tm[i].stepIndex>> :
      i \in { j \in DOMAIN tm : tm[j].shipmentId = id /\ tm[j].kind \in {"ap", "ar"} } }

\* C1: an AR step fires for a shipment only if the audit_complete step of the
\* shipment's AP script has fired in the current run (the shipment is in
\* completedAPShipments, which start and reset empty), and then the shipment's
\* AP status is audit_pass.
C1_ARAfterAudit ==
  [][\A i \in DOMAIN timers :
       ARStepTimeout(i) =>
         /\ timers[i].shipmentId \in completedAPShipments
         /\ Ship(timers[i].shipmentId).apStatus = "audit_pass"]_vars

\* C2: from the firing of a gated step until handleApproveAction for the shipment
\* (or a start or a reset) the shipment is halted: pendingAction stays set, no
\* step of the shipment is scheduled and so none logs an activity; pause and
\* resume in between do not change that.
C2_HaltedUntilApproved ==
  [][\A id \in ShipmentIds :
       Halted(id) =>
         /\ StepTimers(timers, id) = {}
         /\ \/ Halted(id)' /\ StepTimers(timers', id) = {}
            \/ handleApproveAction(id)
            \/ resetSimulation
            \/ StartDemo
            \/ \E i \in DOMAIN timers : AutoStartTimeout(i)]_vars

\* the gated steps of a shipment whose draft waits for the approval, as
\* <<script, index>>
GatesPending(id) ==
  { <<activities[k].category, activities[k].id[3]>> :
      k \in { j \in DOMAIN activities :
                /\ activities[j].shipmentId = id
                /\ activities[j].type = "email_draft"
                /\ activities[j].pendingAction } }

\* C3: when handleApproveAction is invoked for a shipment halted at the gated
\* step g of a script, the step that is scheduled for the shipment, and so the
\* next one to fire, is step g + 1 of that script: no step up to g, and no step
\* of the other script.
C3_ApproveResumesAfterGate ==
  [][\A id \in ShipmentIds :
       (Halted(id) /\ handleApproveAction(id)) =>
         /\ StepTimers(timers', id) # {}
         /\ \A t \in StepTimers(timers', id) :
              \E g \in GatesPending(id) : t = <<g[1], g[2] + 1>>]_vars

\* the timers that the simulation has set (all but the mount effect's)
SimulationTimers(tm) == { i \in DOMAIN tm : tm[i].kind # "autoStart" }

\* C4: after pauseSimulation, and after resetSimulation, no timer of the
\* simulation is pending, at whatever moment the handler is called; so nothing
\* is logged and no status or phase changes until a start, a resume or an
\* approval.
C4_PauseClearsTimers ==
  [][(pauseSimulation \/ resetSimulation) => SimulationTimers(timers') = {}]_vars

\* the draft of step `stepIndex` of a script of the shipment was logged in this
\* run and has been approved (handleApproveAction took its pendingAction off)
DraftApproved(category, id, stepIndex) ==
  \E k \in DOMAIN activities :
    /\ activities[k].id = <<category, id, stepIndex>>
    /\ activities[k].type = "email_draft"
    /\ ~activities[k].pendingAction

\* C5: within a run an email_sent step fires for a shipment only after the
\* draft of the gate before it was approved for that shipment in the same run.
C5_SentAfterApproval ==
  [][\A i \in DOMAIN timers :
       ((APStepTimeout(i) \/ ARStepTimeout(i)) /\ timers[i].step.type = "email_sent")
         => DraftApproved(timers[i].kind, timers[i].shipmentId, timers[i].stepIndex - 1)]_vars

\* the 2000 ms timer that starts the AR script of the shipment is pending
HandoffPending(id) ==
  \E i \in DOMAIN timers :
    /\ timers[i].kind = "handoff" /\ timers[i].shipmentId = id
    /\ timers[i].delay = 2000

\* runARForShipment(shipment, 0) was called: step 0 of the AR script is scheduled
ARStarted(id) ==
  /\ <<"ar", 0>> \in StepTimers(timers, id)
  /\ id \in DOMAIN activeShipmentSteps /\ activeShipmentSteps[id] = 0

\* C6: when the audit_complete step of a shipment fires, the 2000 ms timer that
\* starts its AR script is set, and whatever follows (a pause, a reset, another
\* start) the timer stays pending until it fires and starts the AR script of
\* the shipment at step 0.
C6_AuditStartsAR ==
  /\ [][\A id \in ShipmentIds, i \in DOMAIN timers :
          (/\ timers[i].shipmentId = id
           /\ timers[i].step.type = "audit_complete"
           /\ APStepTimeout(i)) => HandoffPending(id)']_vars
  /\ \A id \in ShipmentIds : HandoffPending(id) ~> ARStarted(id)

\* C6 witness: the AR script of SHP-002 was started at step 0 in a dashboard that
\* was reset during the delay
C6_StartedAfterReset ==
  /\ ARStarted("SHP-002")
  /\ userOps.resets = 1 /\ simulation.currentPhase = "idle"
  /\ activities = << >>

\* the shipments whose record carries a detention charge
Detained == { id \in ShipmentIds : Seed(id).detentionCharge > 0 }

\* the steps that bring the proof of the detention
ProofTitles ==
  {"Detention Docs Received", "Gate Log Received", "ELD Report Received",
   "Gate Log Verified", "ELD Report Verified"}

\* the script has an issue_found step with status in_dispute, after it the
\* detention-proof steps, and ends with audit_complete / audit_pass
DisputeBranch(steps) ==
  LET issues == { k \in DOMAIN steps :
                    steps[k].type = "issue_found" /\ steps[k].status = "in_dispute" }
  IN /\ issues # {}
     /\ \A title \in ProofTitles :
          \E i \in DOMAIN steps :
            /\ steps[i].title = title
            /\ i < Len(steps)
            /\ \E k \in issues : k < i
     /\ steps[Len(steps)].type = "audit_complete"
     /\ steps[Len(steps)].status = "audit_pass"

\* every detention-proof step of the shipment has fired in this run
ProofLogged(id) ==
  \A title \in ProofTitles :
    \E k \in DOMAIN activities :
      activities[k].shipmentId = id /\ activities[k].title = title

\* C7: the AP script of a shipment with a detention charge holds the dispute
\* branch and ends with audit_complete / audit_pass; in a run in which every
\* draft is approved the shipment's AP status is in_dispute at some point, its
\* audit_complete step fires only after every detention-proof step, and from
\* then on the AP status is audit_pass.
C7_DetentionResolves ==
  /\ [](\A id \in Detained : DisputeBranch(createAPSteps(id, activities)))
  /\ [][\A id \in Detained, i \in DOMAIN timers :
          (/\ timers[i].shipmentId = id
           /\ timers[i].step.type = "audit_complete"
           /\ APStepTimeout(i)) => ProofLogged(id) /\ Ship(id).apStatus' = "audit_pass"]_vars
  /\ \A id \in Detained :
       /\ <>(Ship(id).apStatus = "in_dispute")
       /\ <>[](id \in completedAPShipments /\ Ship(id).apStatus = "audit_pass")

\* C7 witness: the AP script of SHP-001 has ended after its dispute
C7_DisputeResolved ==
  /\ "SHP-001" \in Detained \cap completedAPShipments
  /\ Ship("SHP-001").apStatus = "audit_pass"
  /\ ProofLogged("SHP-001")
  /\ \E k \in DOMAIN activities :
       activities[k].shipmentId = "SHP-001" /\ activities[k].type = "issue_found"

\* the script ends with audit_complete right after 'Invoice Analysis' and has no
\* issue_found step and no step with status in_dispute
ShortBranch(steps) ==
  /\ Len(steps) >= 2
  /\ steps[Len(steps)].type = "audit_complete"
  /\ steps[Len(steps) - 1].title = "Invoice Analysis"
  /\ \A k \in DOMAIN steps :
       steps[k].type # "issue_found" /\ steps[k].status # "in_dispute"

\* C8: the AP script of a shipment without a detention charge is the shorter
\* branch, and the AP status of such a shipment is never in_dispute.
C8_NoDetentionNoDispute ==
  \A id \in ShipmentIds \ Detained :
    /\ ShortBranch(createAPSteps(id, activities))
    /\ Ship(id).apStatus # "in_dispute"

\* C8 witness: the AP script of SHP-002, which has no detention charge, has ended
C8_ShortScriptEnded ==
  /\ "SHP-002" \in completedAPShipments \ Detained
  /\ Ship("SHP-002").apStatus = "audit_pass"
  /\ \E k \in DOMAIN activities :
       activities[k].shipmentId = "SHP-002" /\ activities[k].title = "Invoice Analysis"

\* a timer of the shipment is pending: its start, a step or the hand-off to AR
ShipmentPending(id) == \E i \in DOMAIN timers : timers[i].shipmentId = id

\* the first step of the shipment's AP script has fired
Started(id) ==
  \E k \in DOMAIN activities : activities[k].id = <<"ap", id, 0>>

\* the last step of the shipment's AR script has fired
ScriptEnded(id) ==
  /\ id \in completedAPShipments
  /\ ~ShipmentPending(id)
  /\ \E k \in DOMAIN activities :
       activities[k].id = <<"ar", id, Len(createARSteps(id, activities)) - 1>>

\* what the dashboard holds about one shipment
ShipmentState(id) ==
  << Ship(id),
     IF id \in DOMAIN activeShipmentSteps THEN activeShipmentSteps[id] ELSE -1,
     IF id \in DOMAIN pendingDrafts THEN pendingDrafts[id] ELSE NoDraft,
     id \in completedAPShipments >>

\* C9: in a run without Pause, Reset and Start Demo clicks, whatever the other
\* shipments do (a shipment may stay halted at a gate for ever, approvals are
\* not forced), every shipment is started once the simulation runs, a shipment
\* with a pending timer goes on to its next gate or to the end of its script,
\* and a timer of one shipment changes nothing of another shipment.
C9_ShipmentsIndependent ==
  /\ \A id \in ShipmentIds : simulation.isRunning ~> Started(id)
  /\ \A id \in ShipmentIds : ShipmentPending(id) ~> (Halted(id) \/ ScriptEnded(id))
  /\ [][\A id \in ShipmentIds, i \in DOMAIN timers :
          (timers[i].shipmentId # id /\ Timeout(i)) =>
             /\ ShipmentState(id)' = ShipmentState(id)
             /\ StepTimers(timers', id) = StepTimers(timers, id)]_vars

\* C9 witness: SHP-001 is still halted at its first gate when the script of
\* SHP-002 has ended
C9_OneHaltedOtherEnded ==
  /\ Halted("SHP-001")
  /\ \A k \in DOMAIN activities :
       activities[k].shipmentId = "SHP-001" => activities[k].id[3] <= 1
  /\ ScriptEnded("SHP-002")

\* the ids of the list, in its order
ActivityIds(list) == [k \in DOMAIN list |-> list[k].id]

\* a call of startSimulation or resetSimulation
ListCleared ==
  \/ StartDemo
  \/ resetSimulation
  \/ \E i \in DOMAIN timers : AutoStartTimeout(i)

\* C10: between two start/reset calls the activity list grows only at its
\* head: a step that fires puts exactly one activity in front of the list and
\* leaves the logged activities as they are, approve keeps the ids and the
\* order of the list, and nothing else changes the list.
C10_GrowsAtHead ==
  [][~ListCleared =>
       /\ (\E i \in DOMAIN timers : APStepTimeout(i) \/ ARStepTimeout(i)) =>
             /\ Len(activities') = Len(activities) + 1
             /\ Tail(activities') = activities
       /\ (\E id \in ShipmentIds : handleApproveAction(id)) =>
             ActivityIds(activities') = ActivityIds(activities)
       /\ \/ activities' = activities
          \/ Tail(activities') = activities
          \/ ActivityIds(activities') = ActivityIds(activities)]_vars

\* C10 witness: a draft of SHP-001 was approved and steps fired after it, with
\* entries of the other shipment in between
C10_ApprovedInTheList ==
  /\ session.logOrder = "arrival"
  /\ Len(activities) >= 5
  /\ \E k \in DOMAIN activities :
       /\ k > 1
       /\ activities[k].type = "email_draft"
       /\ ~activities[k].pendingAction
       /\ \E j \in 1..(k - 1) : activities[j].shipmentId # activities[k].shipmentId

\* the fields of a shipment that no step writes
Identity(shipment) == <<shipment.id, shipment.detentionCharge>>

\* the step or the approval changes at most the record of shipment x, and on it
\* only the status and pendingAction fields
OnlyTouches(x) ==
  /\ Len(shipments') = Len(shipments)
  /\ \A k \in DOMAIN shipments :
       /\ Identity(shipments'[k]) = Identity(shipments[k])
       /\ shipments[k].id # x => shipments'[k] = shipments[k]

\* C11: the shipment list holds the seed shipments in seed order; a step or an
\* approval of shipment x leaves every other record as it is and writes on x
\* only apStatus, arStatus and pendingAction; an AP step leaves arStatus and an
\* AR step leaves apStatus.
C11_ShipmentFrame ==
  /\ []([k \in DOMAIN shipments |-> Identity(shipments[k])]
          = [k \in DOMAIN INITIAL_SHIPMENTS |-> Identity(INITIAL_SHIPMENTS[k])])
  /\ [][/\ \A x \in ShipmentIds, i \in DOMAIN timers :
            (timers[i].shipmentId = x /\ (APStepTimeout(i) \/ ARStepTimeout(i))) =>
               /\ OnlyTouches(x)
               /\ timers[i].kind = "ap" => Ship(x).arStatus' = Ship(x).arStatus
               /\ timers[i].kind = "ar" => Ship(x).apStatus' = Ship(x).apStatus
        /\ \A x \in ShipmentIds :
            handleApproveAction(x) =>
               /\ OnlyTouches(x)
               /\ Ship(x).apStatus' = Ship(x).apStatus
               /\ Ship(x).arStatus' = Ship(x).arStatus]_vars

\* C11 witness: AR steps of SHP-002 have fired while SHP-001 is halted in AP
C11_OneInAROneInAP ==
  /\ Ship("SHP-002").apStatus = "audit_pass"
  /\ Ship("SHP-002").arStatus \notin {"preparing", "input_required"}
  /\ Ship("SHP-001").apStatus = "input_required"
  /\ Ship("SHP-001").arStatus = "preparing"

\* C12: right after startSimulation or resetSimulation the shipment list is the
\* seed list and the activity list is empty, whatever the lists held before.
C12_ListsReplaced ==
  [][ListCleared => shipments' = INITIAL_SHIPMENTS /\ activities' = << >>]_vars

\* C12 witness: Start Demo was clicked after a run that left drafts behind, and
\* no timer of the new run has fired yet
C12_StartedOverOldRun ==
  /\ userOps.starts = 1
  /\ DOMAIN pendingDrafts # {}
  /\ Pending("stagger") # {}
  /\ Pending("ap") = {}
  /\ shipments = INITIAL_SHIPMENTS
  /\ activities = << >>

\* C13: the auto-start timer that the mount leaves pending fires; when it fires
\* the simulation is running in phase ap, so the simulation is eventually
\* running in phase ap; the timer is gone once it has fired and no handler
\* arms it again.
C13_AutoStartOnce ==
  /\ <>(simulation.isRunning /\ simulation.currentPhase = "ap")
  /\ (Pending("autoStart") # {}) ~> (Pending("autoStart") = {})
  /\ [](Cardinality(Pending("autoStart")) <= 1)
  /\ [][/\ \A i \in DOMAIN timers :
             AutoStartTimeout(i) =>
               /\ simulation'.isRunning
               /\ simulation'.currentPhase = "ap"
               /\ Pending("autoStart")' = {}
        /\ Pending("autoStart") = {} => Pending("autoStart")' = {}]_vars

\* C13 witness: the auto-start has fired without a click before it
C13_AutoStarted ==
  /\ userOps = [pauses |-> 0, resets |-> 0, starts |-> 0]
  /\ Pending("autoStart") = {}
  /\ Pending("stagger") # {}
  /\ simulation.isRunning
  /\ simulation.currentPhase = "ap"

\* the pending step timers of a shipment, as positions of `timers`
StepTimersOf(id) ==
  { i \in DOMAIN timers : timers[i].shipmentId = id /\ timers[i].kind \in {"ap", "ar"} }

\* C14: at most one step timer is pending for a shipment.
C14_OneChainPerShipment ==
  \A id \in ShipmentIds : Cardinality(StepTimersOf(id)) <= 1

\* the step of the script `category` of the shipment has fired in this run
Fired(category, id, stepIndex) ==
  \E k \in DOMAIN activities : activities[k].id = <<category, id, stepIndex>>

\* C15: a step with index i > 0 fires only after step i - 1 of the same script
\* of the same shipment has fired in the current run.
C15_NoStepSkipped ==
  [][\A i \in DOMAIN timers :
       ((APStepTimeout(i) \/ ARStepTimeout(i)) /\ timers[i].stepIndex > 0) =>
          Fired(timers[i].kind, timers[i].shipmentId, timers[i].stepIndex - 1)]_vars

\* C16: the log holds at most one activity for a shipment, a category and a
\* step index: no step of a script is fired twice in a run.
C16_StepsFireOnce ==
  [][\A i \in DOMAIN timers :
       (APStepTimeout(i) \/ ARStepTimeout(i)) =>
          ~Fired(timers[i].kind, timers[i].shipmentId, timers[i].stepIndex)]_vars

\* the timers that resumeSimulation leaves pending when it is called in the next
\* state, before anything else happens
Resumed == ResumeEach(RunState(timers', activeShipmentSteps'), 1).timers

\* C17: pauseSimulation followed at once by resumeSimulation restores the step
\* timers: a shipment with a pending step timer is re-entered at that step, a
\* shipment that has not started is started at AP step 0, and a shipment that
\* awaits an approval or has finished its AR script gets no timer.
C17_PauseResumeRestores ==
  [][pauseSimulation =>
       \A id \in ShipmentIds :
         /\ StepTimers(timers, id) # {} => StepTimers(Resumed, id) = StepTimers(timers, id)
         /\ (\E i \in Pending("stagger") : timers[i].shipmentId = id) =>
               StepTimers(Resumed, id) = {<<"ap", 0>>}
         /\ (Halted(id) \/ ScriptEnded(id)) => StepTimers(Resumed, id) = {}]_vars

\* the types and statuses of a script, in its order
Shape(steps) == [k \in DOMAIN steps |-> <<steps[k].type, steps[k].status>>]

C19_CompleteMeansFinished ==
  simulation.currentPhase = "complete" =>
    \A id \in ShipmentIds :
      /\ Ship(id).apStatus = "audit_pass"
      /\ Ship(id).arStatus = "submitted"
      /\ Ship(id).pendingAction = "none"
      /\ StepTimersOf(id) = {}

\* C20: when every draft is approved, every pause is followed by a resume and
\* Reset is never clicked, the simulation is eventually in phase complete and
\* not running.
C20_EventuallyComplete ==
  \/ <>(userOps.resets > 0)
  \/ <>(simulation.currentPhase = "complete" /\ ~simulation.isRunning)

\* C21: a shipment has a pending action exactly when pendingDrafts holds a
\* draft for it.
C21_DraftIffPending ==
  \A id \in ShipmentIds :
    Ship(id).pendingAction # "none" <=> id \in DOMAIN pendingDrafts

\* the status of the shipment in the script `category`
StatusIn(category, id) ==
  IF category = "ap" THEN Ship(id).apStatus ELSE Ship(id).arStatus

\* C22: a shipment with a pending action has status input_required in the
\* script of the draft that awaits the approval.
C22_HaltedIsInputRequired ==
  \A id \in ShipmentIds :
    Halted(id) => \A g \in GatesPending(id) : StatusIn(g[1], id) = "input_required"

\* C23: once the AP status of a shipment is audit_pass it stays audit_pass until
\* the next startSimulation or resetSimulation.
C23_AuditPassTerminal ==
  [][\A id \in ShipmentIds :
       (Ship(id).apStatus = "audit_pass" /\ ~ListCleared) =>
          Ship(id).apStatus' = "audit_pass"]_vars

\* the activities of one shipment, in the order of the list
OwnActivities(id) ==
  LET IsOwn(a) == a.shipmentId = id IN SelectSeq(activities, IsOwn)

\* C24: the draft that the document-request gate of a shipment records is the
\* draft that createAPSteps computes from the activities of that shipment
\* alone, so that it is the same however far the other shipments have
\* progressed.
C24_DraftOfShipmentAlone ==
  [][\A id \in ShipmentIds, i \in DOMAIN timers :
       (/\ timers[i].shipmentId = id
        /\ timers[i].step.title = "Drafting Document Request"
        /\ APStepTimeout(i)) =>
          /\ id \in DOMAIN pendingDrafts'
          /\ pendingDrafts'[id] = createAPSteps(id, OwnActivities(id))[2].draftContent]_vars

\* the statuses of an item that is being worked on
ActiveStatuses == {"in-progress", "issue", "action_required"}

\* C25: in the AP and in the AR checklist that getChecklistItems returns (after
\* applyPendingActionGate), the 'completed' items form a prefix, at most one
\* item is active (in-progress, issue, action_required), it is the first
\* non-completed item and every item after it is 'pending'.
C25_ChecklistOrdered ==
  dialog.open =>
    LET items == dialog.checklistItems IN
    \A k \in DOMAIN items :
      /\ items[k].status \in ActiveStatuses \cup {"completed", "pending"}
      /\ items[k].status = "completed" =>
           \A j \in 1..(k - 1) : items[j].status = "completed"
      /\ items[k].status \in ActiveStatuses =>
           /\ \A j \in 1..(k - 1) : items[j].status = "completed"
           /\ \A j \in (k + 1)..Len(items) : items[j].status = "pending"

\* C25 witness: a checklist of a shipment with a pending action, in which the
\* gate marks an item after completed ones and items after it wait
C25_GateAfterCompleted ==
  /\ dialog.open
  /\ hasPendingAction(shipments[1])
  /\ \E k \in DOMAIN dialog.checklistItems :
       /\ 1 < k /\ k < Len(dialog.checklistItems)
       /\ dialog.checklistItems[k].status = "action_required"
       /\ dialog.checklistItems[k - 1].status = "completed"
       /\ dialog.checklistItems[k + 1].status = "pending"

\* C26: AR only starts after AP completes: while apStatus is neither audit_pass
\* nor paid, every item of the AR checklist is 'pending', whatever the
\* activities and the pending action of the shipment.
C26_ARWaitsForAP ==
  (dialog.open /\ dialog.context = "ar" /\ ~canStartAR(shipments[1])) =>
    \A k \in DOMAIN dialog.checklistItems :
      dialog.checklistItems[k].status = "pending"

====
